---- MODULE Spec2Model ----
(***************************************************************************)
(* A model of pylib/mipylib/meteolib/meteo.py: the array/scalar dispatch   *)
(* of the formula wrappers, the standard-atmosphere conversions, the EOF   *)
(* engine and the varimax rotation engine.                                 *)
(*                                                                         *)
(* Numbers are exact rationals n/d extended with the IEEE specials         *)
(* (d = 0: n = 1 is +inf, n = -1 is -inf, n = 0 is NaN), so that division, *)
(* the missing marker and their propagation are computed, not assumed.     *)
(* Rounding is outside the model.                                          *)
(***************************************************************************)
EXTENDS Integers, Sequences, FiniteSets, TLC

VARIABLES eofCall, vmCall, vmSeen, svdSeed, fmCall, stdCall

vars == <<eofCall, vmCall, vmSeen, svdSeed, fmCall, stdCall>>

(***************************************************************************)
(* Bounds of the model.                                                    *)
(***************************************************************************)
MaxDim == 3
MaxEig == 2
MaxIter == 3
MaxSeed == 3

(***************************************************************************)
(* Numbers.                                                                *)
(***************************************************************************)
RECURSIVE GCD(_, _)
GCD(a, b) == IF b = 0 THEN a ELSE GCD(b, a % b)

Abs(i) == IF i < 0 THEN -i ELSE i

Sgn(i) == IF i < 0 THEN -1 ELSE IF i > 0 THEN 1 ELSE 0

Norm(n, d) ==
    IF d = 0 THEN [n |-> Sgn(n), d |-> 0]
    ELSE LET s == IF d < 0 THEN -1 ELSE 1
             g == GCD(Abs(n), Abs(d))
         IN [n |-> (s * n) \div g, d |-> (s * d) \div g]

Rat(n, d) == Norm(n, d)

Num(i) == [n |-> i, d |-> 1]

nan == [n |-> 0, d |-> 0]

IsNaN(a) == a.n = 0 /\ a.d = 0

RAdd(a, b) ==
    IF a.d = 0 /\ b.d = 0 THEN (IF a = b THEN a ELSE nan)
    ELSE Norm(a.n * b.d + b.n * a.d, a.d * b.d)

RNeg(a) == [n |-> -a.n, d |-> a.d]

RSub(a, b) == RAdd(a, RNeg(b))

RMul(a, b) == Norm(a.n * b.n, a.d * b.d)

RDiv(a, b) == Norm(a.n * b.d, a.d * b.n)

RAbs(a) == [n |-> Abs(a.n), d |-> a.d]

RLt(a, b) ==
    IF IsNaN(a) \/ IsNaN(b) THEN FALSE
    ELSE IF a.d = 0 /\ b.d = 0 THEN a.n < b.n
    ELSE a.n * b.d < b.n * a.d

RGeq(a, b) ==
    IF IsNaN(a) \/ IsNaN(b) THEN FALSE
    ELSE ~RLt(a, b)

ISqrt(k) == CHOOSE r \in 0..k : r * r <= k /\ (r + 1) * (r + 1) > k

\* the square root of a rational whose numerator and denominator are squares
RSqrt(a) ==
    IF a.d = 0 THEN (IF a.n = 1 THEN a ELSE nan)
    ELSE IF a.n < 0 THEN nan
    ELSE [n |-> ISqrt(a.n), d |-> ISqrt(a.d)]

(***************************************************************************)
(* Two-dimensional arrays: nr rows, nc columns, entries a[i][j].           *)
(***************************************************************************)
\* (the entries are compared with themselves so that they are computed once,
\* when the array is built, and not again each time one is read)
Mat(r, c, F(_, _)) ==
    LET a == [i \in 1..r |-> [j \in 1..c |-> F(i, j)]]
    IN [nr |-> r, nc |-> c, a |-> IF a = a THEN a ELSE a]

Shape(A) == <<A.nr, A.nc>>

RECURSIVE SumTo(_, _)
SumTo(k, f) == IF k = 0 THEN Num(0) ELSE RAdd(SumTo(k - 1, f), f[k])

dot(A, B) ==
    Mat(A.nr, B.nc,
        LAMBDA i, j : SumTo(A.nc, [k \in 1..A.nc |-> RMul(A.a[i][k], B.a[k][j])]))

T(A) == Mat(A.nc, A.nr, LAMBDA i, j : A.a[j][i])

zeros(r, c) == Mat(r, c, LAMBDA i, j : Num(0))

eye(k) == Mat(k, k, LAMBDA i, j : IF i = j THEN Num(1) ELSE Num(0))

MatNeg(A) == Mat(A.nr, A.nc, LAMBDA i, j : RNeg(A.a[i][j]))

MatDivScalar(A, s) == Mat(A.nr, A.nc, LAMBDA i, j : RDiv(A.a[i][j], s))

ReverseCols(A) == Mat(A.nr, A.nc, LAMBDA i, j : A.a[i][A.nc + 1 - j])

ReverseRows(A) == Mat(A.nr, A.nc, LAMBDA i, j : A.a[A.nr + 1 - i][j])

ReverseSeq(s) == [k \in 1..Len(s) |-> s[Len(s) + 1 - k]]

Row(A, i) == A.a[i]

Col(A, j) == [i \in 1..A.nr |-> A.a[i][j]]

Min(a, b) == IF a < b THEN a ELSE b


(***************************************************************************)
(* The array and linear-algebra library (mipylib.numeric) that eof and     *)
(* varimax call.  Its code is not part of meteo.py; it is modelled from    *)
(* its contract: eig returns eigenvalues ascending with the eigenvectors   *)
(* as columns, svd returns U, the singular values descending and           *)
(* non-negative, and Vh, and the factors are orthogonal.  The factors are  *)
(* drawn from the signed cyclic permutation matrices, which are exactly    *)
(* orthogonal, and the eigenvalues from signed squares, whose roots are    *)
(* exact.                                                                  *)
(***************************************************************************)
OrthMat(k, s, sg) ==
    Mat(k, k, LAMBDA i, j : IF j = ((i - 1 + s) % k) + 1 THEN Num(sg) ELSE Num(0))

OrthSet(k) ==
    IF k = 0 THEN {zeros(0, 0)}
    ELSE {OrthMat(k, s, sg) : s \in 0..(k - 1), sg \in {1, -1}}

\* the factors with the sign of U . diag(S) . Vh carried by U
CycSet(k) ==
    IF k = 0 THEN {zeros(0, 0)}
    ELSE {OrthMat(k, s, 1) : s \in 0..(k - 1)}

SingSeqs(k) ==
    {[i \in 1..k |-> Num(f[i])] :
        f \in {g \in [1..k -> 0..MaxEig] : \A i \in 1..(k - 1) : g[i] >= g[i + 1]}}

EigSeqs(k) ==
    {[i \in 1..k |-> Num(Sgn(f[i]) * f[i] * f[i])] :
        f \in {g \in [1..k -> (-1)..MaxEig] : \A i \in 1..(k - 1) : g[i] <= g[i + 1]}}

\* np.linalg.svd(A): every (U, S, Vh) the contract allows for the shape of A
svd(A) ==
    {[U |-> u, S |-> s, Vh |-> v] :
        u \in OrthSet(A.nr), s \in SingSeqs(Min(A.nr, A.nc)), v \in CycSet(A.nc)}

\* np.linalg.eig(C): every (E, V) the contract allows for the shape of C
eig(C) == {[E |-> e, V |-> v] : e \in EigSeqs(C.nr), v \in OrthSet(C.nr)}

\* an array is handed to the library with no element at all
Degenerate(A) == A.nr = 0 \/ A.nc = 0

(***************************************************************************)
(* eof: the inputs.  An input is an array of 1, 2 or 3 dimensions; a 2-D   *)
(* input holds the missing marker in column 0 of the rows in R and, when   *)
(* o = 1, in column 1 of row 0 as well.                                    *)
(***************************************************************************)
Array2D(M) == [shape |-> <<M.nr, M.nc>>, mat |-> M, anynan |-> FALSE]

ArrayND(sh, hasnan) == [shape |-> sh, mat |-> zeros(0, 0), anynan |-> hasnan]

EofMatrix(r, c, R, o) ==
    Mat(r, c, LAMBDA i, j :
        IF (j = 1 /\ i \in R) \/ (j = 2 /\ i = o) THEN nan ELSE Num(2 * i + j))

EofInputs ==
    {Array2D(EofMatrix(r, c, R, o)) :
        r \in 0..MaxDim, c \in 0..MaxDim, R \in SUBSET (1..MaxDim), o \in {0, 1}}
    \cup {ArrayND(<<2>>, b) : b \in BOOLEAN}
    \cup {ArrayND(<<2, 2, 2>>, b) : b \in BOOLEAN}

\* x.contains_nan()
contains_nan(x) ==
    IF Len(x.shape) = 2
    THEN \E i \in 1..x.mat.nr : \E j \in 1..x.mat.nc : IsNaN(x.mat.a[i][j])
    ELSE x.anynan

RECURSIVE WhereFrom(_, _)
WhereFrom(M, i) ==
    IF i > M.nr THEN <<>>
    ELSE IF ~IsNaN(M.a[i][1]) THEN <<i>> \o WhereFrom(M, i + 1)
    ELSE WhereFrom(M, i + 1)

\* np.where(x[:,0] != np.nan)[0]: the rows whose column 0 is not the marker
ValidIdx(M) == WhereFrom(M, 1)

\* x[valid_idx, :]
TakeRows(M, idx) == Mat(Len(idx), M.nc, LAMBDA i, j : M.a[idx[i]][j])

\* the position of row i in idx, 0 when it is not there
PosIn(idx, i) ==
    IF \E k \in 1..Len(idx) : idx[k] = i
    THEN CHOOSE k \in 1..Len(idx) : idx[k] = i
    ELSE 0

\* target[idx, :] = V may be assigned: V has the shape of the region
CanAssignRows(target, idx, V) ==
    /\ V.nr = Len(idx)
    /\ V.nc = target.nc

\* target[idx, :] = V
AssignRows(target, idx, V) ==
    Mat(target.nr, target.nc, LAMBDA i, j :
        IF PosIn(idx, i) = 0 THEN target.a[i][j]
        ELSE V.a[PosIn(idx, i)][j])

\* np.ones(x.shape) * np.nan
NanLike(M) == Mat(M.nr, M.nc, LAMBDA i, j : RMul(Num(1), nan))


(***************************************************************************)
(* eof: the three decomposition pathways, as functions of the (reduced)    *)
(* matrix xx and of what the library returned.                             *)
(***************************************************************************)
\* C = np.zeros((m, n)); C[i,i] = S[i]
DiagOf(m, n, S) ==
    Mat(m, n, LAMBDA i, j : IF i = j /\ i <= Len(S) THEN S[i] ELSE Num(0))

\* E = S**2 / n
VarianceOf(S, n) == [i \in 1..Len(S) |-> RDiv(RMul(S[i], S[i]), Num(n))]

EofSvdPath(xx, out) ==
    [EOF |-> out.U,
     E   |-> VarianceOf(out.S, xx.nc),
     PC  |-> dot(DiagOf(xx.nr, xx.nc, out.S), out.Vh)]

\* C = np.dot(xx.T, xx)
TimeCovariance(xx) == dot(T(xx), xx)

\* the eigenvalues in the order the library returns them
AscendingE(E1) == E1

\* E = E1[::-1] and E = E[::-1]
DescendingE(E1) == ReverseSeq(E1)

\* EOF[:,i] = EOFa[:,i] / np.sqrt(abs(E[i]))
NormalizeCols(EOFa, E) ==
    Mat(EOFa.nr, EOFa.nc, LAMBDA i, j : RDiv(EOFa.a[i][j], RSqrt(RAbs(E[j]))))

EofTransformPath(xx, out) ==
    LET EOF1 == ReverseCols(out.V)
        E    == DescendingE(out.E)
        EOFa == dot(xx, EOF1)
        EOF  == NormalizeCols(EOFa, E)
    IN [EOF |-> EOF, E |-> E, PC |-> dot(T(EOF), xx)]

\* C = np.dot(xx, xx.T) / n
SpaceCovariance(xx) == MatDivScalar(dot(xx, T(xx)), Num(xx.nc))

\* PC = PC[::-1,:]
DescendingPC(PC) == ReverseRows(PC)

EofDefaultPath(xx, out) ==
    LET PC == dot(T(out.V), xx)
    IN [EOF |-> ReverseCols(out.V), E |-> DescendingE(out.E), PC |-> DescendingPC(PC)]

(***************************************************************************)
(* eof: the call, step by step.                                            *)
(***************************************************************************)
NoMat == zeros(0, 0)

EofStart(x, svdFlag, transformFlag) ==
    [pc |-> "mask", err |-> "", x |-> x, svd |-> svdFlag, transform |-> transformFlag,
     has_nan |-> FALSE, valid_idx |-> <<>>, xx |-> x,
     U |-> NoMat, S |-> <<>>, Vh |-> NoMat, E1 |-> <<>>, V1 |-> NoMat,
     EOF |-> NoMat, E |-> <<>>, PC |-> NoMat, retEOF |-> NoMat, retPC |-> NoMat]

EofIdle == [EofStart(ArrayND(<<>>, FALSE), FALSE, FALSE) EXCEPT !.pc = "idle"]

EofRaise(e) == [eofCall EXCEPT !.pc = "error", !.err = e]

\* lines 535-541
EofMask ==
    /\ eofCall.pc = "mask"
    /\ LET x == eofCall.x IN
       IF contains_nan(x)
       THEN IF Len(x.shape) = 1
            THEN \* x[:,0] indexes a 1-D array with two indices
                 eofCall' = EofRaise("malformed_input")
            ELSE IF Len(x.shape) = 2
            THEN LET idx == ValidIdx(x.mat) IN
                 eofCall' = [eofCall EXCEPT !.pc = "unpack", !.has_nan = TRUE,
                                            !.valid_idx = idx,
                                            !.xx = Array2D(TakeRows(x.mat, idx))]
            ELSE \* the selection of rows keeps the rank of x
                 eofCall' = [eofCall EXCEPT !.pc = "unpack", !.has_nan = TRUE]
       ELSE eofCall' = [eofCall EXCEPT !.pc = "unpack", !.xx = x]
    /\ UNCHANGED <<vmCall, vmSeen, svdSeed, fmCall, stdCall>>

\* line 543: m, n = xx.shape
EofUnpack ==
    /\ eofCall.pc = "unpack"
    /\ IF Len(eofCall.xx.shape) # 2
       THEN eofCall' = EofRaise("malformed_input")
       ELSE eofCall' = [eofCall EXCEPT !.pc = "decompose"]
    /\ UNCHANGED <<vmCall, vmSeen, svdSeed, fmCall, stdCall>>

EofDecomposed(r) ==
    [eofCall EXCEPT !.pc = "restore", !.EOF = r.EOF, !.E = r.E, !.PC = r.PC]

\* lines 544-551
EofSvd ==
    /\ eofCall.pc = "decompose"
    /\ eofCall.svd
    /\ \E out \in svd(eofCall.xx.mat) :
          eofCall' = [EofDecomposed(EofSvdPath(eofCall.xx.mat, out))
                         EXCEPT !.U = out.U, !.S = out.S, !.Vh = out.Vh]
    /\ UNCHANGED <<vmCall, vmSeen, svdSeed, fmCall, stdCall>>

\* lines 553-562
EofTransform ==
    /\ eofCall.pc = "decompose"
    /\ ~eofCall.svd
    /\ eofCall.transform
    /\ \E out \in eig(TimeCovariance(eofCall.xx.mat)) :
          eofCall' = [EofDecomposed(EofTransformPath(eofCall.xx.mat, out))
                         EXCEPT !.E1 = out.E, !.V1 = out.V]
    /\ UNCHANGED <<vmCall, vmSeen, svdSeed, fmCall, stdCall>>

\* lines 563-569
EofDefault ==
    /\ eofCall.pc = "decompose"
    /\ ~eofCall.svd
    /\ ~eofCall.transform
    /\ \E out \in eig(SpaceCovariance(eofCall.xx.mat)) :
          eofCall' = [EofDecomposed(EofDefaultPath(eofCall.xx.mat, out))
                         EXCEPT !.E1 = out.E, !.V1 = out.V]
    /\ UNCHANGED <<vmCall, vmSeen, svdSeed, fmCall, stdCall>>

\* the matrix eof hands to the library on its pathway
EofLinalgArg ==
    IF eofCall.svd THEN eofCall.xx.mat
    ELSE IF eofCall.transform THEN TimeCovariance(eofCall.xx.mat)
    ELSE SpaceCovariance(eofCall.xx.mat)

\* the library raises: the decomposition does not converge, or it refuses an
\* array with no element; eof lets the error through
EofLinalgRaises ==
    /\ eofCall.pc = "decompose"
    /\ \E e \in {"computation_failed", "malformed_input"} :
          /\ e = "malformed_input" => Degenerate(EofLinalgArg)
          /\ eofCall' = EofRaise(e)
    /\ UNCHANGED <<vmCall, vmSeen, svdSeed, fmCall, stdCall>>

\* lines 571-578
EofRestore ==
    /\ eofCall.pc = "restore"
    /\ IF eofCall.has_nan
       THEN LET full == NanLike(eofCall.x.mat)
                idx  == eofCall.valid_idx
                nEOF == MatNeg(eofCall.EOF)
                nPC  == MatNeg(eofCall.PC)
            IN IF CanAssignRows(full, idx, nEOF) /\ CanAssignRows(full, idx, nPC)
               THEN eofCall' = [eofCall EXCEPT !.pc = "done",
                                               !.retEOF = AssignRows(full, idx, nEOF),
                                               !.retPC = AssignRows(full, idx, nPC)]
               ELSE eofCall' = EofRaise("shape_mismatch")
       ELSE eofCall' = [eofCall EXCEPT !.pc = "done", !.retEOF = eofCall.EOF,
                                       !.retPC = eofCall.PC]
    /\ UNCHANGED <<vmCall, vmSeen, svdSeed, fmCall, stdCall>>

VmIdle == [pc |-> "idle"]

VmNone == [set |-> FALSE]

FmIdle == [pc |-> "idle"]

StdIdle == [pc |-> "idle"]

InitEof ==
    /\ \E x \in EofInputs : \E sf \in BOOLEAN : \E tf \in BOOLEAN :
          eofCall = EofStart(x, sf, tf)
    /\ vmCall = VmIdle
    /\ vmSeen = VmNone
    /\ svdSeed = 0
    /\ fmCall = FmIdle
    /\ stdCall = StdIdle

NextEof ==
    \/ EofMask
    \/ EofUnpack
    \/ EofSvd
    \/ EofTransform
    \/ EofDefault
    \/ EofLinalgRaises
    \/ EofRestore

SpecEof == InitEof /\ [][NextEof]_vars


(***************************************************************************)
(* Claims about eof.                                                       *)
(***************************************************************************)
EofFinished == eofCall.pc \in {"done", "error"}

EofIs2D == Len(eofCall.x.shape) = 2

\* R: the rows of x that carry the missing marker in column 0
MaskedRows ==
    IF EofIs2D /\ eofCall.x.mat.nc >= 1
    THEN {i \in 1..eofCall.x.mat.nr : IsNaN(eofCall.x.mat.a[i][1])}
    ELSE {}

AllNaNRow(M, i) == \A j \in 1..M.nc : IsNaN(M.a[i][j])

\* full holds, at the rows idx, -1 times the rows of reduced, and the marker
\* in the rows of R
RestoredFrom(full, reduced, idx, R) ==
    /\ full.nr = eofCall.x.mat.nr
    /\ \A i \in R : AllNaNRow(full, i)
    /\ Len(idx) = reduced.nr
    /\ \A k \in 1..Len(idx) : Row(full, idx[k]) = Row(MatNeg(reduced), k)

\* C1: whenever rows R of a 2-D x carry the missing marker in column 0, some
\* row is left for the reduced matrix and the library has returned its
\* decomposition, eof returns (the scatter succeeds), the rows in R of the
\* returned EOF and PC hold the marker, and every other row is -1 times the
\* corresponding row of the EOF / PC of the reduced matrix.
C1_MaskedRowsRestored ==
    (/\ EofIs2D
     /\ MaskedRows # {}
     /\ eofCall.valid_idx # <<>>
     /\ eofCall.pc = "done" \/ (eofCall.pc = "error" /\ eofCall.err = "shape_mismatch"))
    => /\ eofCall.pc = "done"
       /\ RestoredFrom(eofCall.retEOF, eofCall.EOF, eofCall.valid_idx, MaskedRows)
       /\ RestoredFrom(eofCall.retPC, eofCall.PC, eofCall.valid_idx, MaskedRows)

\* C2: the returned E is non-increasing across the mode index, on every
\* pathway.
C2_EigenvaluesNonIncreasing ==
    eofCall.pc = "done" =>
        \A k \in 1..(Len(eofCall.E) - 1) : RGeq(eofCall.E[k], eofCall.E[k + 1])

C2_Witness ==
    /\ eofCall.pc = "done"
    /\ ~eofCall.svd
    /\ Len(eofCall.E) >= 2
    /\ RLt(eofCall.E[2], eofCall.E[1])

\* the mode the library returned that eof places at index k of its result:
\* its eigenvalue (or variance), its loading column and its time series
ModeE(k) ==
    IF eofCall.svd
    THEN RDiv(RMul(eofCall.S[k], eofCall.S[k]), Num(eofCall.xx.mat.nc))
    ELSE eofCall.E1[Len(eofCall.E1) + 1 - k]

ModeEOF(k) ==
    LET xx == eofCall.xx.mat IN
    IF eofCall.svd THEN Col(eofCall.U, k)
    ELSE IF eofCall.transform
    THEN LET q == xx.nc + 1 - k
             c == Col(dot(xx, eofCall.V1), q)
         IN [i \in 1..xx.nr |-> RDiv(c[i], RSqrt(RAbs(eofCall.E1[q])))]
    ELSE Col(eofCall.V1, xx.nr + 1 - k)

ModePC(k) ==
    LET xx == eofCall.xx.mat IN
    IF eofCall.svd
    THEN [j \in 1..xx.nc |-> RMul(eofCall.S[k], eofCall.Vh.a[k][j])]
    ELSE [j \in 1..xx.nc |->
             SumTo(xx.nr, [i \in 1..xx.nr |-> RMul(ModeEOF(k)[i], xx.a[i][j])])]

\* the rows of the result that hold the rows of the reduced matrix
ResultRows ==
    IF eofCall.has_nan THEN eofCall.valid_idx
    ELSE [i \in 1..eofCall.xx.mat.nr |-> i]

ResultSign == IF eofCall.has_nan THEN Num(-1) ELSE Num(1)

Scaled(c, v) == [i \in DOMAIN v |-> RMul(c, v[i])]

ModesAligned(k) ==
    /\ eofCall.E[k] = ModeE(k)
    /\ k <= eofCall.retEOF.nc
    /\ \A i \in 1..Len(ResultRows) :
          eofCall.retEOF.a[ResultRows[i]][k] = RMul(ResultSign, ModeEOF(k)[i])
    /\ k <= eofCall.retPC.nr
    /\ Row(eofCall.retPC, k) = Scaled(ResultSign, ModePC(k))

\* C3: in the result of every pathway (of a call whose reduced matrix keeps
\* some row), column k of EOF, row k of PC and E[k] belong to the same mode,
\* and on the default pathway the returned PC is (returned EOF)^T . x.
C3_ModesCorrespond ==
    (eofCall.pc = "done" /\ eofCall.xx.mat.nr >= 1) =>
        /\ \A k \in 1..Len(eofCall.E) : ModesAligned(k)
        /\ (~eofCall.svd /\ ~eofCall.transform) =>
              eofCall.retPC = dot(T(eofCall.retEOF), eofCall.x.mat)

\* C7: a call on a non-2-D input, or on a 2-D input with zero columns, ends in
\* a malformed-input error on every pathway and never returns a result (a
\* decomposition that fails to converge aside, which is the library's error).
C7_MalformedInputRejected ==
    (/\ EofFinished
     /\ ~EofIs2D \/ eofCall.x.shape[2] = 0
     /\ eofCall.err # "computation_failed")
    => (eofCall.pc = "error" /\ eofCall.err = "malformed_input")

\* C11: eof masks and negates exactly when column 0 of x holds the missing
\* marker: in a returned result has_nan is set iff some row carries the
\* marker in column 0, and when none does (the marker may sit in other
\* columns) no row was removed and the returned EOF and PC are the computed
\* ones, not negated and with no row filled with the marker.
C11_MaskingTrigger ==
    (eofCall.pc = "done" /\ EofIs2D) =>
        /\ eofCall.has_nan <=> (MaskedRows # {})
        /\ MaskedRows = {} =>
              /\ eofCall.xx = eofCall.x
              /\ eofCall.retEOF = eofCall.EOF
              /\ eofCall.retPC = eofCall.PC


(***************************************************************************)
(* varimax.  The library's svd is a function of its argument: the same B   *)
(* gives the same factors.  Which function is not known; svdSeed ranges    *)
(* over a family of them, each picking, for every B, orthogonal U and Vh   *)
(* and non-negative descending singular values.                            *)
(***************************************************************************)
FromRows(rows) ==
    Mat(Len(rows), Len(rows[1]), LAMBDA i, j : Num(rows[i][j]))

VmLoadings ==
    {FromRows(<< <<1>>, <<2>> >>),
     FromRows(<< <<1, 0>>, <<1, 1>>, <<0, 2>> >>),
     FromRows(<< <<1, 0, 1>>, <<0, 1, 1>> >>)}

VmTols == {Num(0), Rat(1, 2)}

SvdPick(B) ==
    svdSeed + SumTo(B.nr, [i \in 1..B.nr |->
                  SumTo(B.nc, [j \in 1..B.nc |->
                      Num((i + 2 * j) * (Abs(B.a[i][j].n) + B.a[i][j].d))])]).n

\* U, S, Vh = np.linalg.svd(B)
SvdOf(B) ==
    LET k == B.nr
        h == SvdPick(B)
        s == (h \div (2 * k * k)) % (MaxEig + 1)
    IN [U  |-> OrthMat(k, h % k, IF (h \div k) % 2 = 0 THEN 1 ELSE -1),
        S  |-> [j \in 1..k |-> Num(IF s >= j THEN s - j + 1 ELSE 0)],
        Vh |-> OrthMat(k, (h \div (2 * k)) % k, 1)]

Cube(z) == Mat(z.nr, z.nc, LAMBDA i, j : RMul(z.a[i][j], RMul(z.a[i][j], z.a[i][j])))

Square(z) == Mat(z.nr, z.nc, LAMBDA i, j : RMul(z.a[i][j], z.a[i][j]))

ones(r, c) == Mat(r, c, LAMBDA i, j : Num(1))

\* np.diag(np.squeeze(v)) of a 1 x nc array v
diag(v) == Mat(v.nc, v.nc, LAMBDA i, j : IF i = j THEN v.a[1][i] ELSE Num(0))

MatSub(A, B) == Mat(A.nr, A.nc, LAMBDA i, j : RSub(A.a[i][j], B.a[i][j]))

\* line 597
VarimaxB(x, z) ==
    LET p == x.nr IN
    dot(T(x), MatSub(Cube(z),
                     MatDivScalar(dot(z, diag(dot(ones(1, p), Square(z)))), Num(p))))

\* the product taken element by element
ElementwiseTT(U, Vh) == Mat(U.nr, U.nc, LAMBDA i, j : RMul(U.a[i][j], Vh.a[i][j]))

\* line 599: TT = np.dot(U, Vh)
NextTT(U, Vh) == dot(U, Vh)

SumSeq(S) == SumTo(Len(S), S)

\* d <= d2 * (1 + tol)
ConvergedOrEqual(d, d2, tol) == ~RLt(RMul(d2, RAdd(Num(1), tol)), d)

\* line 603: d < d2 * (1 + tol)
Converged(d, d2, tol) == RLt(d, RMul(d2, RAdd(Num(1), tol)))

\* the loadings with every row scaled to unit absolute sum
RowScaled(x, normalize) ==
    IF normalize
    THEN Mat(x.nr, x.nc, LAMBDA i, j :
             RDiv(x.a[i][j], SumTo(x.nc, [k \in 1..x.nc |-> RAbs(x.a[i][k])])))
    ELSE x

\* the loadings the loop rotates: x itself, whatever normalize is
Loadings(x, normalize) == x

\* lines 592-594
VmStart(x, normalize, tol, it_max) ==
    [pc |-> "loop", x |-> x, normalize |-> normalize, tol |-> tol, it_max |-> it_max,
     i |-> 0, TT |-> eye(x.nc), d |-> Num(0), d2 |-> Num(0), r |-> NoMat,
     ds |-> <<>>, svds |-> 0]

VmCalls ==
    {VmStart(x, nz, tol, it) :
        x \in VmLoadings, nz \in BOOLEAN, tol \in VmTols, it \in 0..MaxIter}

\* lines 596-604: the loop body, given what svd returned for B
VmPass(c, out) ==
    [c EXCEPT !.i = @ + 1,
              !.TT = NextTT(out.U, out.Vh),
              !.d2 = c.d,
              !.d = SumSeq(out.S),
              !.ds = Append(@, SumSeq(out.S)),
              !.svds = @ + 1,
              !.pc = IF Converged(SumSeq(out.S), c.d, c.tol) THEN "final" ELSE "loop"]

\* lines 595-604: one pass of the loop
VmIterate ==
    /\ vmCall.pc = "loop"
    /\ vmCall.i < vmCall.it_max
    /\ \E x \in {Loadings(vmCall.x, vmCall.normalize)} :
       \E z \in {dot(x, vmCall.TT)} :
       \E B \in {VarimaxB(x, z)} :
       \E out \in {SvdOf(B)} :
          vmCall' = VmPass(vmCall, out)
    /\ UNCHANGED <<eofCall, vmSeen, svdSeed, fmCall, stdCall>>

\* line 597: np.squeeze leaves no dimension of a 1 x 1 array, which np.diag
\* may refuse
VmDiagRaises ==
    /\ vmCall.pc = "loop"
    /\ vmCall.i < vmCall.it_max
    /\ vmCall.x.nc = 1
    /\ vmCall' = [vmCall EXCEPT !.pc = "error"]
    /\ UNCHANGED <<eofCall, vmSeen, svdSeed, fmCall, stdCall>>

\* line 595: range(it_max) is exhausted
VmExhausted ==
    /\ vmCall.pc = "loop"
    /\ vmCall.i >= vmCall.it_max
    /\ vmCall' = [vmCall EXCEPT !.pc = "final"]
    /\ UNCHANGED <<eofCall, vmSeen, svdSeed, fmCall, stdCall>>

\* lines 606-608
VmFinal ==
    /\ vmCall.pc = "final"
    /\ vmCall' = [vmCall EXCEPT !.pc = "done",
                                !.r = dot(Loadings(vmCall.x, vmCall.normalize), vmCall.TT)]
    /\ UNCHANGED <<eofCall, vmSeen, svdSeed, fmCall, stdCall>>

VmResult(c) ==
    [set |-> TRUE, x |-> c.x, normalize |-> c.normalize, tol |-> c.tol,
     it_max |-> c.it_max, r |-> c.r, TT |-> c.TT]

\* the caller calls varimax
VmCall ==
    /\ vmCall.pc = "idle"
    /\ vmCall' \in VmCalls
    /\ UNCHANGED <<eofCall, vmSeen, svdSeed, fmCall, stdCall>>

\* the call is over; one earlier result is kept for comparison
VmReturn ==
    /\ vmCall.pc \in {"done", "error"}
    /\ vmCall' = VmIdle
    /\ \/ vmSeen' = vmSeen
       \/ /\ vmCall.pc = "done"
          /\ ~vmSeen.set
          /\ vmSeen' = VmResult(vmCall)
    /\ UNCHANGED <<eofCall, svdSeed, fmCall, stdCall>>

InitVarimax ==
    /\ vmCall = VmIdle
    /\ vmSeen = VmNone
    /\ svdSeed \in 0..MaxSeed
    /\ eofCall = EofIdle
    /\ fmCall = FmIdle
    /\ stdCall = StdIdle

NextVarimax ==
    \/ VmIterate
    \/ VmDiagRaises
    \/ VmExhausted
    \/ VmFinal
    \/ VmCall
    \/ VmReturn

SpecVarimax == InitVarimax /\ [][NextVarimax]_vars


(***************************************************************************)
(* Claims about varimax.                                                   *)
(***************************************************************************)
\* C4: the rotation matrix TT is orthogonal, TT . TT^T = Identity, when it is
\* initialised, after every pass of the loop and in the returned tuple.
C4_RotationOrthogonal ==
    vmCall.pc \in {"loop", "final", "done"} =>
        dot(vmCall.TT, T(vmCall.TT)) = eye(vmCall.x.nc)

C4_Witness ==
    /\ vmCall.pc = "done"
    /\ vmCall.i >= 2
    /\ vmCall.TT # eye(vmCall.x.nc)

DAt(k) == IF k = 0 THEN Num(0) ELSE vmCall.ds[k]

\* d_k < d_(k-1) * (1 + tol)
StopsAt(k) == RLt(DAt(k), RMul(DAt(k - 1), RAdd(Num(1), vmCall.tol)))

\* C10: the loop ends after exactly the first pass k with
\* d_k < d_(k-1) * (1 + tol), and after it_max passes when there is none; it
\* makes one svd call per pass, at most it_max, and never ends on the check
\* at pass 1.
C10_LoopTermination ==
    vmCall.pc \in {"final", "done"} =>
        /\ vmCall.i <= vmCall.it_max
        /\ vmCall.svds = vmCall.i
        /\ Len(vmCall.ds) = vmCall.i
        /\ \A k \in 1..(vmCall.i - 1) : ~StopsAt(k)
        /\ vmCall.i < vmCall.it_max => StopsAt(vmCall.i)
        /\ vmCall.i >= 1 => ~StopsAt(1)

C10_Witness ==
    /\ vmCall.pc = "done"
    /\ vmCall.i >= 2
    /\ vmCall.i < vmCall.it_max
    /\ StopsAt(vmCall.i)


(***************************************************************************)
(* The formula wrappers that dispatch between an array branch and a scalar *)
(* branch.  An argument is a plain number, an MIArray or a DimArray (an    *)
(* MIArray with dims, fill_value and proj).  The numeric routines of       *)
(* ArrayMath and MeteoMath are outside meteo.py: a routine's result is     *)
(* the term that records the routine and the arguments it was handed, in   *)
(* order, and an array routine is the scalar routine taken element by      *)
(* element.                                                                *)
(***************************************************************************)
NoMeta == [has |-> FALSE, dims |-> "", fill_value |-> "", proj |-> ""]

Metas ==
    {[has |-> TRUE, dims |-> "lat", fill_value |-> "-9999", proj |-> "lonlat"],
     [has |-> TRUE, dims |-> "time", fill_value |-> "nan", proj |-> "lambert"]}

\* data holds the elements: a number holds one, an array one per position
Number(v) == [kind |-> "number", data |-> <<v>>, meta |-> NoMeta]

MIArray(v) == [kind |-> "MIArray", data |-> v, meta |-> NoMeta]

DimArray(a, dims, fill_value, proj) ==
    [kind |-> "DimArray", data |-> a.data,
     meta |-> [has |-> TRUE, dims |-> dims, fill_value |-> fill_value, proj |-> proj]]

\* isinstance(a, MIArray): DimArray is a subclass of MIArray
IsMIArray(a) == a.kind \in {"MIArray", "DimArray"}

IsDimArray(a) == a.kind = "DimArray"

\* what a routine computes from the arguments it is handed
Term(routine, args) == <<routine, args>>

\* the element of an argument that element i of the result is computed from
Elem(a, i) == IF IsMIArray(a) THEN a.data[i] ELSE a.data[1]

\* the routine taken element by element over its array arguments
Elementwise(routine, args) ==
    LET n == Len(args[CHOOSE k \in 1..Len(args) : IsMIArray(args[k])].data)
    IN [i \in 1..n |-> Term(routine, [k \in 1..Len(args) |-> Elem(args[k], i)])]

Returned(outs) == [ok |-> TRUE, outs |-> outs]

Raised == [ok |-> FALSE, outs |-> <<>>]

\* a.asarray() is there for every argument the array branch sends it to
AllArrays(args) == \A k \in 1..Len(args) : IsMIArray(args[k])

AllNumbers(args) == \A k \in 1..Len(args) : ~IsMIArray(args[k])

\* lines 34-53
uv2ds(u, v) ==
    IF IsMIArray(u)
    THEN IF ~AllArrays(<<u, v>>) THEN Raised
         ELSE LET d == MIArray(Elementwise("uv2ds[0]", <<u, v>>))
                  s == MIArray(Elementwise("uv2ds[1]", <<u, v>>))
              IN IF IsDimArray(u) /\ IsDimArray(v)
                 THEN Returned(<<DimArray(d, u.meta.dims, u.meta.fill_value, u.meta.proj),
                                 DimArray(s, u.meta.dims, u.meta.fill_value, u.meta.proj)>>)
                 ELSE Returned(<<d, s>>)
    ELSE IF ~AllNumbers(<<u, v>>) THEN Raised
         ELSE Returned(<<Number(Term("uv2ds[0]", <<u.data[1], v.data[1]>>)),
                         Number(Term("uv2ds[1]", <<u.data[1], v.data[1]>>))>>)

\* lines 55-74
ds2uv(d, s) ==
    IF IsMIArray(d)
    THEN IF ~AllArrays(<<d, s>>) THEN Raised
         ELSE LET u == MIArray(Elementwise("ds2uv[0]", <<d, s>>))
                  v == MIArray(Elementwise("ds2uv[1]", <<d, s>>))
              IN IF IsDimArray(d) /\ IsDimArray(s)
                 THEN Returned(<<DimArray(u, d.meta.dims, d.meta.fill_value, d.meta.proj),
                                 DimArray(v, d.meta.dims, d.meta.fill_value, d.meta.proj)>>)
                 ELSE Returned(<<u, v>>)
    ELSE IF ~AllNumbers(<<d, s>>) THEN Raised
         ELSE Returned(<<Number(Term("ds2uv[0]", <<d.data[1], s.data[1]>>)),
                         Number(Term("ds2uv[1]", <<d.data[1], s.data[1]>>))>>)

\* the shape shared by p2h, h2p, tf2tc and tc2tf
OneArgument(routine, a) ==
    IF IsMIArray(a)
    THEN LET r == MIArray(Elementwise(routine, <<a>>))
         IN IF IsDimArray(a)
            THEN Returned(<<DimArray(r, a.meta.dims, a.meta.fill_value, a.meta.proj)>>)
            ELSE Returned(<<r>>)
    ELSE Returned(<<Number(Term(routine, <<a.data[1]>>))>>)

\* lines 76-90
p2h(press) == OneArgument("press2Height", press)

\* lines 106-120
h2p(height) == OneArgument("height2Press", height)

\* lines 137-153
tf2tc(tf) == OneArgument("tf2tc", tf)

\* lines 155-171
tc2tf(tc) == OneArgument("tc2tf", tc)

\* lines 173-197
qair2rh(qair, temp, press) ==
    IF IsMIArray(qair)
    THEN IF ~IsMIArray(temp) THEN Raised
         ELSE LET r == MIArray(Elementwise("qair2rh", <<qair, temp, press>>))
              IN IF IsDimArray(qair)
                 THEN Returned(<<DimArray(r, qair.meta.dims, qair.meta.fill_value,
                                          qair.meta.proj)>>)
                 ELSE Returned(<<r>>)
    ELSE IF ~AllNumbers(<<qair, temp, press>>) THEN Raised
         ELSE Returned(<<Number(Term("qair2rh", <<qair.data[1], temp.data[1], press.data[1]>>))>>)

\* lines 199-217
dewpoint2rh(dewpoint, temp) ==
    IF IsMIArray(dewpoint)
    THEN IF ~IsMIArray(temp) THEN Raised
         ELSE LET r == MIArray(Elementwise("dewpoint2rh", <<dewpoint, temp>>))
              IN IF IsDimArray(dewpoint)
                 THEN Returned(<<DimArray(r, dewpoint.meta.dims, dewpoint.meta.fill_value,
                                          dewpoint.meta.proj)>>)
                 ELSE Returned(<<r>>)
    ELSE IF ~AllNumbers(<<dewpoint, temp>>) THEN Raised
         ELSE Returned(<<Number(Term("dewpoint2rh", <<temp.data[1], dewpoint.data[1]>>))>>)

\* lines 219-237
rh2dewpoint(rh, temp) ==
    IF IsMIArray(rh)
    THEN IF ~IsMIArray(temp) THEN Raised
         ELSE LET r == MIArray(Elementwise("rh2dewpoint", <<rh, temp>>))
              IN IF IsDimArray(rh)
                 THEN Returned(<<DimArray(r, rh.meta.dims, rh.meta.fill_value, rh.meta.proj)>>)
                 ELSE Returned(<<r>>)
    ELSE IF ~AllNumbers(<<rh, temp>>) THEN Raised
         ELSE Returned(<<Number(Term("rh2dewpoint", <<rh.data[1], temp.data[1]>>))>>)

\* the arguments a caller passes
FmValues == {1, 2}

FmArrays == {<<1, 2>>, <<2, 1>>}

FmArgs ==
    {Number(v) : v \in FmValues}
    \cup {MIArray(a) : a \in FmArrays}
    \cup {DimArray(MIArray(a), m.dims, m.fill_value, m.proj) : a \in FmArrays, m \in Metas}

FmCalled(fn, args, res) ==
    [pc |-> IF res.ok THEN "done" ELSE "error", fn |-> fn, args |-> args, outs |-> res.outs]

FmOther == <<eofCall, vmCall, vmSeen, svdSeed, stdCall>>

Call_uv2ds ==
    /\ fmCall.pc = "idle"
    /\ \E u \in FmArgs : \E v \in FmArgs : fmCall' = FmCalled("uv2ds", <<u, v>>, uv2ds(u, v))
    /\ UNCHANGED FmOther

Call_ds2uv ==
    /\ fmCall.pc = "idle"
    /\ \E d \in FmArgs : \E s \in FmArgs : fmCall' = FmCalled("ds2uv", <<d, s>>, ds2uv(d, s))
    /\ UNCHANGED FmOther

Call_p2h ==
    /\ fmCall.pc = "idle"
    /\ \E a \in FmArgs : fmCall' = FmCalled("p2h", <<a>>, p2h(a))
    /\ UNCHANGED FmOther

Call_h2p ==
    /\ fmCall.pc = "idle"
    /\ \E a \in FmArgs : fmCall' = FmCalled("h2p", <<a>>, h2p(a))
    /\ UNCHANGED FmOther

Call_tf2tc ==
    /\ fmCall.pc = "idle"
    /\ \E a \in FmArgs : fmCall' = FmCalled("tf2tc", <<a>>, tf2tc(a))
    /\ UNCHANGED FmOther

Call_tc2tf ==
    /\ fmCall.pc = "idle"
    /\ \E a \in FmArgs : fmCall' = FmCalled("tc2tf", <<a>>, tc2tf(a))
    /\ UNCHANGED FmOther

Call_qair2rh ==
    /\ fmCall.pc = "idle"
    /\ \E q \in FmArgs : \E t \in FmArgs : \E pr \in FmArgs :
          fmCall' = FmCalled("qair2rh", <<q, t, pr>>, qair2rh(q, t, pr))
    /\ UNCHANGED FmOther

Call_dewpoint2rh ==
    /\ fmCall.pc = "idle"
    /\ \E d \in FmArgs : \E t \in FmArgs :
          fmCall' = FmCalled("dewpoint2rh", <<d, t>>, dewpoint2rh(d, t))
    /\ UNCHANGED FmOther

Call_rh2dewpoint ==
    /\ fmCall.pc = "idle"
    /\ \E rh \in FmArgs : \E t \in FmArgs :
          fmCall' = FmCalled("rh2dewpoint", <<rh, t>>, rh2dewpoint(rh, t))
    /\ UNCHANGED FmOther

FmReturn ==
    /\ fmCall.pc \in {"done", "error"}
    /\ fmCall' = FmIdle
    /\ UNCHANGED FmOther

InitFormula ==
    /\ fmCall = FmIdle
    /\ eofCall = EofIdle
    /\ vmCall = VmIdle
    /\ vmSeen = VmNone
    /\ svdSeed = 0
    /\ stdCall = StdIdle

NextFormula ==
    \/ Call_uv2ds
    \/ Call_ds2uv
    \/ Call_p2h
    \/ Call_h2p
    \/ Call_tf2tc
    \/ Call_tc2tf
    \/ Call_qair2rh
    \/ Call_dewpoint2rh
    \/ Call_rh2dewpoint
    \/ FmReturn

SpecFormula == InitFormula /\ [][NextFormula]_vars

(***************************************************************************)
(* Claims about the formula wrappers.                                      *)
(***************************************************************************)
\* the same call on the numbers at position i of the array arguments
ScalarCall(fn, args, i) ==
    LET a == [k \in 1..Len(args) |-> Number(Elem(args[k], i))] IN
    CASE fn = "uv2ds" -> uv2ds(a[1], a[2])
      [] fn = "ds2uv" -> ds2uv(a[1], a[2])
      [] fn = "p2h" -> p2h(a[1])
      [] fn = "h2p" -> h2p(a[1])
      [] fn = "tf2tc" -> tf2tc(a[1])
      [] fn = "tc2tf" -> tc2tf(a[1])
      [] fn = "qair2rh" -> qair2rh(a[1], a[2], a[3])
      [] fn = "dewpoint2rh" -> dewpoint2rh(a[1], a[2])
      [] fn = "rh2dewpoint" -> rh2dewpoint(a[1], a[2])

\* C5: a call on arrays holds, element for element, the value of the same
\* call on the corresponding scalars: both branches hand the routine the same
\* arguments in the same order.
C5_ScalarAndArrayAgree ==
    (fmCall.pc = "done" /\ IsMIArray(fmCall.args[1])) =>
        \A k \in 1..Len(fmCall.outs) : \A i \in 1..Len(fmCall.outs[k].data) :
            LET sc == ScalarCall(fmCall.fn, fmCall.args, i)
            IN sc.ok /\ fmCall.outs[k].data[i] = sc.outs[k].data[1]

\* the metadata the arguments carry
InputMetas == {fmCall.args[k].meta : k \in 1..Len(fmCall.args)} \ {NoMeta}

\* C6: every output carries exactly the metadata an input carries, also when
\* only one of two arguments carries any, and none when no input carries any.
C6_MetadataPassThrough ==
    fmCall.pc = "done" =>
        \A k \in 1..Len(fmCall.outs) :
            IF InputMetas = {} THEN fmCall.outs[k].meta = NoMeta
            ELSE fmCall.outs[k].meta \in InputMetas


(***************************************************************************)
(* The standard-atmosphere pair.  Powers with a real exponent have no      *)
(* exact rational value, so a quantity is kept in closed form and          *)
(* simplified by the laws of real arithmetic only:                         *)
(*     "rational"  c0                                                      *)
(*     "affine"    c0 + c1 * b^e                                           *)
(*     "power"     m * (c0 + c1 * b^e)^x                                   *)
(*     "other"     anything else                                           *)
(* An exponent is a monomial c * Rd^k in the gas constant of dry air,      *)
(* which stays a symbol: Rd = R / Md is positive and nothing else about    *)
(* its value is used.                                                      *)
(***************************************************************************)
PMin == 100

PMax == 1050

ExpOf(r) == [c |-> r, k |-> 0]

ExpOne == ExpOf(Num(1))

ExpCanon(c, k) == IF c.n = 0 THEN ExpOf(c) ELSE [c |-> c, k |-> k]

ExpMul(a, b) == ExpCanon(RMul(a.c, b.c), a.k + b.k)

ExpDiv(a, b) == ExpCanon(RDiv(a.c, b.c), a.k - b.k)

\* line 18: Rd = R / Md
Rd == [c |-> Num(1), k |-> 1]

\* line 24: g = 9.8
g == Rat(49, 5)

Closed(form, m, c0, c1, b, e, x) ==
    [form |-> form, m |-> m, c0 |-> c0, c1 |-> c1, b |-> b, e |-> e, x |-> x]

Real(r) == Closed("rational", Num(1), r, Num(0), Num(1), ExpOne, ExpOne)

Other == Closed("other", Num(1), Num(0), Num(0), Num(1), ExpOne, ExpOne)

\* c0 + c1 * b^e, reduced where b^e is a rational
Affine(c0, c1, b, e) ==
    IF c1.n = 0 THEN Real(c0)
    ELSE IF e.c.n = 0 \/ b = Num(1) THEN Real(RAdd(c0, c1))
    ELSE IF e = ExpOne THEN Real(RAdd(c0, RMul(c1, b)))
    ELSE Closed("affine", Num(1), c0, c1, b, e, ExpOne)

\* v * r
VMul(v, r) ==
    CASE v.form = "rational" -> Real(RMul(v.c0, r))
      [] v.form = "affine" -> Affine(RMul(v.c0, r), RMul(v.c1, r), v.b, v.e)
      [] v.form = "power" ->
            IF r.n = 0 THEN Real(Num(0))
            ELSE Closed("power", RMul(v.m, r), v.c0, v.c1, v.b, v.e, v.x)
      [] OTHER -> Other

\* v / r
VDiv(v, r) == VMul(v, RDiv(Num(1), r))

\* r - v
VSubFrom(r, v) ==
    CASE v.form = "rational" -> Real(RSub(r, v.c0))
      [] v.form = "affine" -> Affine(RSub(r, v.c0), RNeg(v.c1), v.b, v.e)
      [] OTHER -> Other

\* v ** x, for a positive base
VPow(v, x) ==
    CASE v.form = "rational" -> Affine(Num(0), Num(1), v.c0, x)
      [] v.form = "affine" ->
            IF v.c0.n = 0 /\ v.c1 = Num(1)
            THEN Affine(Num(0), Num(1), v.b, ExpMul(v.e, x))
            ELSE IF x = ExpOne THEN v
            ELSE Closed("power", Num(1), v.c0, v.c1, v.b, v.e, x)
      [] OTHER -> Other

\* lines 92-104
pressure_to_height_std(press) ==
    LET t0 == Num(288)
        gamma == Rat(13, 2)
        p0 == Rat(4053, 4)
    IN VMul(VMul(VSubFrom(Num(1),
                          VPow(VDiv(press, p0),
                               ExpDiv(ExpMul(Rd, ExpOf(gamma)), ExpOf(g)))),
                 RDiv(t0, gamma)),
            Num(1000))

\* leaving the height in metres
Metres(height) == height

\* line 133: height = height * 0.001
Kilometres(height) == VMul(height, Rat(1, 1000))

\* lines 122-135
height_to_pressure_std(height) ==
    LET t0 == Num(288)
        gamma == Rat(13, 2)
        p0 == Rat(4053, 4)
        km == Kilometres(height)
    IN VMul(VPow(VSubFrom(Num(1), VMul(km, RDiv(gamma, t0))),
                 ExpDiv(ExpOf(g), ExpMul(Rd, ExpOf(gamma)))),
            p0)

StdOther == <<eofCall, vmCall, vmSeen, svdSeed, fmCall>>

StdStart(press) ==
    [pc |-> "start", press |-> Real(press), h |-> Real(Num(0)), p |-> Real(Num(0))]

StdToHeight ==
    /\ stdCall.pc = "start"
    /\ stdCall' = [stdCall EXCEPT !.pc = "height",
                                  !.h = pressure_to_height_std(stdCall.press)]
    /\ UNCHANGED StdOther

StdToPressure ==
    /\ stdCall.pc = "height"
    /\ stdCall' = [stdCall EXCEPT !.pc = "done",
                                  !.p = height_to_pressure_std(stdCall.h)]
    /\ UNCHANGED StdOther

InitStd ==
    /\ \E press \in PMin..PMax : stdCall = StdStart(Num(press))
    /\ eofCall = EofIdle
    /\ vmCall = VmIdle
    /\ vmSeen = VmNone
    /\ svdSeed = 0
    /\ fmCall = FmIdle

NextStd ==
    \/ StdToHeight
    \/ StdToPressure

SpecStd == InitStd /\ [][NextStd]_vars

\* C8: for every pressure of the range, the pressure of the height of the
\* pressure is that pressure again: the exponents of the two functions are
\* reciprocal and the height is brought from metres to kilometres once.
C8_StdRoundTrip ==
    stdCall.pc = "done" => stdCall.p = stdCall.press

C8_Witness ==
    /\ stdCall.pc = "done"
    /\ stdCall.h.form = "affine"
    /\ stdCall.p = stdCall.press
    /\ stdCall.press = Real(Num(500))

====
